---------------------------- MODULE Spec2Model ----------------------------
(* A model of the ingestion-to-retrieval core of solar-RAG:                *)
(*   - Chunker.chunk_text            (src/chunker.py)      SpecChunk       *)
(*   - Chunker.chunk_by_sections /                                          *)
(*     Chunker.chunk_all             (src/chunker.py)      SpecSections    *)
(*   - VectorStore, RAGSystem.process_document and RAGSystem.query         *)
(*     (src/vector_store.py, src/rag_system.py)            SpecStore       *)
(*   - the chunks process_document hands to the index       SpecSections    *)
(* Strings are sequences of one-character strings.                          *)
EXTENDS Integers, Sequences, FiniteSets, TLC

VARIABLES
    \* ---- Chunker.chunk_text: arguments, locals and loop position
    text, chunk_size, overlap, sentences, idx, chunks, current_chunk,
    current_length, pc,
    \* ---- the on-disk index directory (chroma_db/) and its one collection
    disk_exists, disk_coll, disk_entries, next_id,
    \* ---- each VectorStore / RAGSystem object: position, call in progress,
    \* ---- arguments, what the caller received, what the call did
    spc, op, batch, doc, found, result, recovered, before,
    \* ---- Chunker.chunk_all / chunk_by_sections: arguments, locals, position
    content, use_sections, cpc, cursor, section_map, section_chunks, chunked,
    \* ---- RAGSystem.process_document: the chunks it hands to add_chunks
    all_chunks,
    \* ---- PerplexityClient.query: argument, loop position, locals, return
    context, item_no, context_parts, ppc, answer,
    \* ---- Chunker.detect_sections: argument, position, return value
    dtext, dpc, detected

chunkVars == <<text, chunk_size, overlap, sentences, idx, chunks,
               current_chunk, current_length, pc>>

diskVars == <<disk_exists, disk_coll, disk_entries, next_id>>
objVars == <<spc, op, batch, doc, found, result, recovered, before>>
storeVars == <<diskVars, objVars>>

sectionVars == <<content, use_sections, cpc, cursor, section_map,
                 section_chunks, chunked, all_chunks>>

promptVars == <<context, item_no, context_parts, ppc, answer>>

detectVars == <<dtext, dpc, detected>>

vars == <<chunkVars, storeVars, sectionVars, promptVars, detectVars>>

-----------------------------------------------------------------------------
(* Bounds of the model.                                                     *)
MaxTextLen == 5
MaxChunkSize == 3
MaxIds == 3
MaxBatch == 2
MaxTopK == 2
MaxDocLines == 3
SentenceLen == 600
MaxContext == 2
MaxBlocks == 6
MaxLineLen == 5

(* Program constants.                                                       *)
OverlapDivisor == 50
MaxDocLen == 10000
TEXT_CHUNK_SIZE == 1000
TEXT_CHUNK_OVERLAP == 200
TableBudget == 3000
TextBudget == 1500
OtherBudget == 500

-----------------------------------------------------------------------------
(* Strings.                                                                 *)
Chars == {"a", ".", " "}
Punct == {".", "!", "?"}
Whitespace == {" ", "\n", "\t"}

Texts == UNION {[1..n -> Chars] : n \in 0..MaxTextLen}

\* the overlap arguments tried: none, multiples of 50 and values between them
Overlaps == {0, 25, 50, 75, 100}

(* A page of a document is long, so its text is written with one symbol   *)
(* for a whole heading line or a whole sentence: a string is a sequence   *)
(* of symbols, each a character or such a piece, and has the length of    *)
(* the text it stands for.                                                 *)
HeadingLines == {"5.3 Title", "5.4 Title"}
SentencePiece == "Sentence."
\* two different texts of exactly MaxDocLen characters
LongTexts == {"text A of 10000 characters", "text B of 10000 characters"}

\* a run of OtherBudget characters of a retrieved content
Block == "500 characters"
\* the words of the marker put after a cut table
ContinuesWords == "[... table continues ...]"

\* len() of the text a symbol stands for
SymLen(a) ==
    CASE a \in HeadingLines -> 9
      [] a = SentencePiece -> SentenceLen
      [] a \in LongTexts -> MaxDocLen
      [] a = Block -> OtherBudget
      [] a = ContinuesWords -> 25
      [] a = "Section" -> 7
      [] OTHER -> 1

RECURSIVE StrLen(_)
\* len(s)
StrLen(s) == IF s = <<>> THEN 0 ELSE SymLen(s[1]) + StrLen(Tail(s))

\* the symbol ends with one of . ! ?
EndsSentence(a) == a \in Punct \/ a = SentencePiece

Min(a, b) == IF a < b THEN a ELSE b
Max(a, b) == IF a > b THEN a ELSE b

RECURSIVE JoinTight(_, _)
\* a join that leaves the separator out
JoinTight(parts, sep) ==
    IF parts = <<>> THEN <<>> ELSE parts[1] \o JoinTight(Tail(parts), sep)

RECURSIVE Join(_, _)
\* sep.join(parts)
Join(parts, sep) ==
    IF parts = <<>> THEN <<>>
    ELSE IF Len(parts) = 1 THEN parts[1]
    ELSE parts[1] \o sep \o Join(Tail(parts), sep)

\* s[i:] of Python for 0 <= i (1-based: drops the first i elements)
DropFirst(s, i) == SubSeq(s, i + 1, Len(s))

\* s[-k:] of Python for k >= 0; s[-0:] is s[0:], the whole list
LastK(s, k) == IF k = 0 \/ k >= Len(s) THEN s ELSE SubSeq(s, Len(s) - k + 1, Len(s))

IsPrefix(p, s) == Len(p) <= Len(s) /\ SubSeq(s, 1, Len(p)) = p
IsSuffix(p, s) == Len(p) <= Len(s) /\ SubSeq(s, Len(s) - Len(p) + 1, Len(s)) = p
IsSubstring(p, s) ==
    \E i \in 0..(Len(s) - Len(p)) : SubSeq(s, i + 1, i + Len(p)) = p

RECURSIVE WsRunEnd(_, _)
\* the last index of the whitespace run of t that starts at i
WsRunEnd(t, i) ==
    IF i < Len(t) /\ t[i + 1] \in Whitespace THEN WsRunEnd(t, i + 1) ELSE i

RECURSIVE SplitFrom(_, _, _, _)
\* re.split(r'(?<=[.!?])\s+', t), scanning from index i with the piece cur
\* under construction and the pieces acc already cut
SplitFrom(t, i, cur, acc) ==
    IF i > Len(t) THEN Append(acc, cur)
    ELSE IF t[i] \in Whitespace /\ i > 1 /\ EndsSentence(t[i - 1])
         THEN SplitFrom(t, WsRunEnd(t, i) + 1, <<>>, Append(acc, cur))
         ELSE SplitFrom(t, i + 1, Append(cur, t[i]), acc)

SplitSentences(t) == SplitFrom(t, 1, <<>>, <<>>)

-----------------------------------------------------------------------------
(* Chunker.chunk_text, one action per loop iteration.                       *)

InitChunkText ==
    /\ text \in Texts
    /\ chunk_size \in 1..MaxChunkSize
    /\ overlap \in Overlaps
    /\ sentences = SplitSentences(text)
    /\ idx = 1
    /\ chunks = <<>>
    /\ current_chunk = <<>>
    /\ current_length = 0
    /\ pc = "loop"

\* line 33: the k of the slice current_chunk[-overlap//50:], which Python
\* reads as current_chunk[(-overlap)//50:] with a division that rounds down
TailCount(ov) == 0 - ((0 - ov) \div OverlapDivisor)

\* line 33: the text carried over from the emitted buffer
OverlapText(cur, ov) ==
    IF Len(cur) > ov \div OverlapDivisor
    THEN Join(LastK(cur, TailCount(ov)), <<" ">>)
    ELSE cur[Len(cur)]

\* the buffer restarted from the overlap alone: the overflowing sentence is lost
NewBufferDropsSentence(cur, ov, sentence) == <<OverlapText(cur, ov)>>

\* line 34: the buffer that follows an emitted one
NewBuffer(cur, ov, sentence) ==
    IF OverlapText(cur, ov) # <<>>
    THEN <<OverlapText(cur, ov), sentence>>
    ELSE <<sentence>>

\* lines 28-35: the next sentence overflows a non-empty buffer
EmitOnOverflow ==
    /\ pc = "loop"
    /\ idx <= Len(sentences)
    /\ current_length + StrLen(sentences[idx]) > chunk_size
    /\ current_chunk # <<>>
    /\ chunks' = Append(chunks, Join(current_chunk, <<" ">>))
    /\ current_chunk' = NewBuffer(current_chunk, overlap, sentences[idx])
    /\ current_length' = StrLen(Join(current_chunk', <<" ">>))
    /\ idx' = idx + 1
    /\ UNCHANGED <<text, chunk_size, overlap, sentences, pc, storeVars, sectionVars, promptVars, detectVars>>

\* lines 36-38
AppendSentence ==
    /\ pc = "loop"
    /\ idx <= Len(sentences)
    /\ ~(current_length + StrLen(sentences[idx]) > chunk_size
          /\ current_chunk # <<>>)
    /\ current_chunk' = Append(current_chunk, sentences[idx])
    /\ current_length' = current_length + StrLen(sentences[idx]) + 1
    /\ idx' = idx + 1
    /\ UNCHANGED <<text, chunk_size, overlap, sentences, chunks, pc, storeVars, sectionVars, promptVars, detectVars>>

\* lines 40-44
FlushRemaining ==
    /\ pc = "loop"
    /\ idx > Len(sentences)
    /\ chunks' = IF current_chunk # <<>>
                 THEN Append(chunks, Join(current_chunk, <<" ">>))
                 ELSE chunks
    /\ pc' = "done"
    /\ UNCHANGED <<text, chunk_size, overlap, sentences, idx, current_chunk,
                   current_length, storeVars, sectionVars, promptVars, detectVars>>


RECURSIVE ChunkLoop(_, _, _, _, _, _, _)
\* lines 25-44 as one function: the loop from sentence i on, then the flush
ChunkLoop(sents, i, out, cur, clen, size, ov) ==
    IF i > Len(sents)
    THEN IF cur # <<>> THEN Append(out, Join(cur, <<" ">>)) ELSE out
    ELSE IF clen + StrLen(sents[i]) > size /\ cur # <<>>
         THEN ChunkLoop(sents, i + 1, Append(out, Join(cur, <<" ">>)),
                        NewBuffer(cur, ov, sents[i]),
                        StrLen(Join(NewBuffer(cur, ov, sents[i]), <<" ">>)),
                        size, ov)
         ELSE ChunkLoop(sents, i + 1, out, Append(cur, sents[i]),
                        clen + StrLen(sents[i]) + 1, size, ov)

\* Chunker.chunk_text(t, size, ov), as the other methods call it
ChunkText(t, size, ov) == ChunkLoop(SplitSentences(t), 1, <<>>, <<>>, 0, size, ov)

-----------------------------------------------------------------------------
(* VectorStore (src/vector_store.py) and RAGSystem.process_document         *)
(* (src/rag_system.py). The persistent store is the directory db_path with  *)
(* one named collection; every call into it either succeeds or raises an    *)
(* exception whose message is one of ErrMsgs.                               *)

Instances == {"A", "B"}
Types == {"text", "table"}
TypeFilters == Types \cup {"image", "NoFilter"}
ErrMsgs == {"compaction", "metadata", "no such column", "topic", "other"}

\* lines 26 and 96: "compaction" in str(e).lower() or "metadata" in ...
IsCorruption(e) == e \in {"compaction", "metadata"}
\* line 40
IsSchemaError(e) == e \in {"compaction", "metadata", "no such column", "topic"}

\* the contents of the chunks stored: one of exactly MaxDocLen characters,
\* one a character longer
Contents == {<<"text A of 10000 characters">>,
             <<"text B of 10000 characters", "a">>}

\* a chunk with its embedding: its type and its content
Chunk == [type : Types, content : Contents]
Batches == UNION {[1..n -> Chunk] : n \in 1..MaxBatch}
Docs == [exists : BOOLEAN, ext : {".pdf", ".xlsx", ".xls", ".txt"},
         clear_existing : BOOLEAN]
NoDoc == [exists |-> FALSE, ext |-> "", clear_existing |-> FALSE]
NoQuery == [top_k |-> 0, content_type |-> "NoFilter", hits |-> {}]
NoResult == [outcome |-> "none", value |-> "None"]

InitStore ==
    /\ disk_exists \in BOOLEAN
    /\ disk_coll = FALSE
    /\ disk_entries = {}
    /\ next_id = 1
    /\ spc = [v \in Instances |-> "new"]
    /\ op = [v \in Instances |-> "none"]
    /\ batch = [v \in Instances |-> <<>>]
    /\ doc = [v \in Instances |-> NoDoc]
    /\ found = [v \in Instances |-> NoQuery]
    /\ result = [v \in Instances |-> NoResult]
    /\ recovered = [v \in Instances |-> {}]
    /\ before = [v \in Instances |-> {}]

\* an exception leaves the call in progress: __init__ has no object to
\* hand out, every other call leaves the object as it is
Raise(v) ==
    /\ spc' = [spc EXCEPT ![v] = IF op[v] = "init" THEN "dead" ELSE "ready"]
    /\ result' = [result EXCEPT ![v] = [outcome |-> "raised", value |-> "None"]]

\* a call of the object returns val to its caller
Return(v, val) ==
    /\ spc' = [spc EXCEPT ![v] = "ready"]
    /\ result' = [result EXCEPT ![v] = [outcome |-> "returned", value |-> val]]

\* a call begins: what the caller last received is forgotten
Begin(v, name) ==
    /\ op' = [op EXCEPT ![v] = name]
    /\ result' = [result EXCEPT ![v] = NoResult]
    /\ recovered' = [recovered EXCEPT ![v] = {}]
    /\ before' = [before EXCEPT ![v] = disk_entries]

\* the results of the last search are dropped
NoHits(v) == found' = [found EXCEPT ![v] = NoQuery]

\* the call takes no batch of chunks, no document
NoBatch(v) == batch' = [batch EXCEPT ![v] = <<>>]
NoDocument(v) == doc' = [doc EXCEPT ![v] = NoDoc]

RECURSIVE TakeChars(_, _)
\* s[:n] for an s whose symbols end where the cut falls
TakeChars(s, n) ==
    IF s = <<>> \/ SymLen(s[1]) > n THEN <<>>
    ELSE <<s[1]>> \o TakeChars(Tail(s), n - SymLen(s[1]))

\* add_chunks storing every content whole
PrepareUncut(b, first) ==
    [i \in 1..Len(b) |->
        [id |-> first + i - 1,
         type |-> b[i].type,
         document |-> b[i].content]]

\* lines 64-83: one id (uuid4), document and metadata per chunk; the
\* document is the content cut to MaxDocLen characters
Prepare(b, first) ==
    [i \in 1..Len(b) |->
        [id |-> first + i - 1,
         type |-> b[i].type,
         document |-> IF StrLen(b[i].content) > MaxDocLen
                      THEN TakeChars(b[i].content, MaxDocLen)
                      ELSE b[i].content]]

Range(f) == {f[i] : i \in DOMAIN f}

\* an add that skips a chunk whose document is already stored
CollectionAddSkipsDuplicates(entries, b) ==
    entries \cup {e \in Range(b) :
                    \A x \in entries : <<x.type, x.document>> # <<e.type, e.document>>}

\* an add that stores only the first chunk of the batch
CollectionAddFirstOnly(entries, b) == entries \cup {b[1]}

\* collection.add of a prepared batch
CollectionAdd(entries, b) == entries \cup Range(b)

\* ------------------------------------------------------------- __init__
\* lines 17-19
Construct(v) ==
    /\ spc[v] \in {"new", "dead", "ready"}
    /\ Begin(v, "init")
    /\ NoHits(v)
    /\ NoBatch(v) /\ NoDocument(v)
    /\ spc' = [spc EXCEPT ![v] = "init_open"]
    /\ UNCHANGED <<promptVars, detectVars, chunkVars, sectionVars, diskVars>>

\* lines 22-31: PersistentClient(path=db_path)
InitOpen(v) ==
    /\ spc[v] = "init_open"
    /\ \/ /\ disk_exists' = TRUE
          /\ spc' = [spc EXCEPT ![v] = "init_get"]
          /\ UNCHANGED result
       \/ /\ \E e \in ErrMsgs : IsCorruption(e)
          /\ spc' = [spc EXCEPT ![v] = "init_reset"]
          /\ UNCHANGED <<disk_exists, result>>
       \/ /\ \E e \in ErrMsgs : ~IsCorruption(e)
          /\ Raise(v)
          /\ UNCHANGED disk_exists
    /\ UNCHANGED <<promptVars, detectVars, chunkVars, sectionVars, disk_coll, disk_entries, next_id, op, batch, doc, found,
                   recovered, before>>

\* the call site of _reset_database: opening the store (line 28), opening
\* the collection (line 43), writing a batch (line 98), clearing (line 202)
ResetPlace(at) ==
    CASE at = "init_reset" -> "open"
      [] at = "init_reset2" -> "collection"
      [] at = "add_reset" -> "write"
      [] OTHER -> "clear"

\* a reset that spares the directory while entries of another object's
\* completed add are in it
RmtreeGuarded(exists, coll, entries) ==
    IF entries # {} THEN <<exists, coll, entries>> ELSE <<FALSE, FALSE, {}>>

\* a reset that removes the directory and leaves the entries in place
RmtreeKeepsEntries(exists, coll, entries) == <<FALSE, FALSE, entries>>

\* a reset that does not remove the directory
RmtreeKeepsIndex(exists, coll, entries) == <<exists, coll, entries>>

\* lines 189-190: shutil.rmtree(self.db_path): directory, collection and
\* entries after it
Rmtree(exists, coll, entries) == <<FALSE, FALSE, {}>>

\* lines 186-194: _reset_database, called at lines 28, 43, 98 and 202
ResetDatabase(v) ==
    /\ spc[v] \in {"init_reset", "init_reset2", "add_reset", "clear_reset"}
    /\ \/ /\ disk_exists' = Rmtree(disk_exists, disk_coll, disk_entries)[1]
          /\ disk_coll' = Rmtree(disk_exists, disk_coll, disk_entries)[2]
          /\ disk_entries' = Rmtree(disk_exists, disk_coll, disk_entries)[3]
          /\ recovered' = [recovered EXCEPT ![v] = @ \cup {ResetPlace(spc[v])}]
          /\ spc' = [spc EXCEPT ![v] =
                CASE spc[v] = "init_reset" -> "init_reopen"
                  [] spc[v] = "init_reset2" -> "init_reopen2"
                  [] spc[v] = "add_reset" -> "add_reopen"
                  [] OTHER -> "clear_reopen"]
          /\ UNCHANGED result
       \/ /\ disk_exists
          /\ Raise(v)
          /\ UNCHANGED <<disk_exists, disk_coll, disk_entries, recovered>>
    /\ UNCHANGED <<promptVars, detectVars, chunkVars, sectionVars, next_id, op, batch, doc, found, before>>

\* lines 29, 44, 99 and 203: PersistentClient again, after the reset
Reopen(v) ==
    /\ spc[v] \in {"init_reopen", "init_reopen2", "add_reopen", "clear_reopen"}
    /\ \/ /\ disk_exists' = TRUE
          /\ spc' = [spc EXCEPT ![v] =
                CASE spc[v] = "init_reopen" -> "init_get"
                  [] spc[v] = "init_reopen2" -> "init_create"
                  [] spc[v] = "add_reopen" -> "add_create"
                  [] OTHER -> "clear_create"]
          /\ UNCHANGED result
       \/ /\ Raise(v)
          /\ UNCHANGED disk_exists
    /\ UNCHANGED <<promptVars, detectVars, chunkVars, sectionVars, disk_coll, disk_entries, next_id, op, batch, doc, found,
                   recovered, before>>

\* lines 34-55: get_collection, and what its failure leads to
InitGet(v) ==
    /\ spc[v] = "init_get"
    /\ \/ /\ disk_coll
          /\ Return(v, "None")
       \/ /\ \E e \in ErrMsgs : IsSchemaError(e)
          /\ spc' = [spc EXCEPT ![v] = "init_reset2"]
          /\ UNCHANGED result
       \/ /\ \E e \in ErrMsgs : ~IsSchemaError(e)
          /\ spc' = [spc EXCEPT ![v] = "init_create"]
          /\ UNCHANGED result
    /\ UNCHANGED <<promptVars, detectVars, chunkVars, sectionVars, diskVars, op, batch, doc, found, recovered, before>>

\* lines 45, 51, 100 and 205: create_collection, which raises when the
\* collection exists
CreateCollection(v) ==
    /\ spc[v] \in {"init_create", "add_create", "clear_create"}
    /\ \/ /\ ~disk_coll
          /\ disk_coll' = TRUE
          /\ disk_entries' = {}
          /\ IF spc[v] = "add_create"
             THEN spc' = [spc EXCEPT ![v] = "add_retry"] /\ UNCHANGED result
             ELSE IF spc[v] = "clear_create" /\ op[v] = "process"
             THEN spc' = [spc EXCEPT ![v] = "pd_extract"] /\ UNCHANGED result
             ELSE Return(v, "None")
       \/ /\ Raise(v)
          /\ UNCHANGED <<disk_coll, disk_entries>>
    /\ UNCHANGED <<promptVars, detectVars, chunkVars, sectionVars, disk_exists, next_id, op, batch, doc, found, recovered,
                   before>>

\* ----------------------------------------------------------- add_chunks
\* lines 57-83
AddChunks(v) ==
    /\ spc[v] = "ready"
    /\ \E b \in Batches :
          /\ next_id + Len(b) - 1 <= MaxIds
          /\ batch' = [batch EXCEPT ![v] = Prepare(b, next_id)]
          /\ next_id' = next_id + Len(b)
    /\ Begin(v, "add")
    /\ NoHits(v)
    /\ NoDocument(v)
    /\ spc' = [spc EXCEPT ![v] = "add_write"]
    /\ UNCHANGED <<promptVars, detectVars, chunkVars, sectionVars, disk_exists, disk_coll, disk_entries>>

\* add_chunks is over: alone it returns None, inside process_document
\* lines 99-108 follow
AddDone(v) ==
    IF op[v] = "process"
    THEN spc' = [spc EXCEPT ![v] = "pd_return"] /\ UNCHANGED result
    ELSE Return(v, "None")

\* lines 86-113: collection.add, and the retry of lines 105-110
AddWrite(v) ==
    /\ spc[v] \in {"add_write", "add_retry"}
    /\ \/ /\ disk_coll
          /\ disk_entries' = CollectionAdd(disk_entries, batch[v])
          /\ AddDone(v)
       \/ /\ spc[v] = "add_write"
          /\ \E e \in ErrMsgs : IsCorruption(e)
          /\ spc' = [spc EXCEPT ![v] = "add_reset"]
          /\ UNCHANGED <<disk_entries, result>>
       \/ /\ \E e \in ErrMsgs : spc[v] = "add_retry" \/ ~IsCorruption(e)
          /\ Raise(v)
          /\ UNCHANGED disk_entries
    /\ UNCHANGED <<promptVars, detectVars, chunkVars, sectionVars, disk_exists, disk_coll, next_id, op, batch, doc, found,
                   recovered, before>>

\* ------------------------------------------------------ clear_collection
\* lines 196-209
ClearCollection(v) ==
    /\ spc[v] = "ready"
    /\ Begin(v, "clear")
    /\ NoHits(v)
    /\ NoBatch(v) /\ NoDocument(v)
    /\ spc' = [spc EXCEPT ![v] = "clear_delete"]
    /\ UNCHANGED <<promptVars, detectVars, chunkVars, sectionVars, diskVars>>

\* lines 198-203: delete_collection; any exception leads to the reset
ClearDelete(v) ==
    /\ spc[v] = "clear_delete"
    /\ \/ /\ disk_coll
          /\ disk_coll' = FALSE
          /\ disk_entries' = {}
          /\ spc' = [spc EXCEPT ![v] = "clear_create"]
       \/ /\ spc' = [spc EXCEPT ![v] = "clear_reset"]
          /\ UNCHANGED <<disk_coll, disk_entries>>
    /\ UNCHANGED <<promptVars, detectVars, chunkVars, sectionVars, disk_exists, next_id, op, batch, doc, found, result,
                   recovered, before>>

\* ---------------------------------------------------------------- search
\* a query that hands no where clause to the store
WhereIgnoresType(entry, content_type) == TRUE

\* lines 118-126: the where clause handed to collection.query
WhereMatches(entry, content_type) ==
    content_type = "NoFilter" \/ entry.type = content_type

\* collection.query: the n_results nearest of the entries the where clause
\* admits; which are nearest is the store's ranking
QueryResults(entries, top_k, content_type) ==
    LET admitted == {e \in entries : WhereMatches(e, content_type)}
    IN  {hits \in SUBSET admitted :
            Cardinality(hits) = Min(top_k, Cardinality(admitted))}

\* lines 115-139
Search(v) ==
    /\ spc[v] = "ready"
    /\ disk_coll
    /\ Begin(v, "search")
    /\ \E k \in 1..MaxTopK, ct \in TypeFilters :
          \E hits \in QueryResults(disk_entries, k, ct) :
             found' = [found EXCEPT ![v] =
                    [top_k |-> k, content_type |-> ct, hits |-> hits]]
    /\ NoBatch(v) /\ NoDocument(v)
    /\ UNCHANGED <<promptVars, detectVars, chunkVars, sectionVars, diskVars, spc>>

\* lines 150-156
HasData(v) == disk_coll /\ Cardinality(disk_entries) > 0

\* ------------------------------------------- RAGSystem.process_document
SupportedExt == {".pdf", ".xlsx", ".xls"}

\* lines 27-33
ProcessDocument(v) ==
    /\ spc[v] = "ready"
    /\ \E d \in Docs : doc' = [doc EXCEPT ![v] = d]
    /\ Begin(v, "process")
    /\ NoHits(v)
    /\ NoBatch(v)
    /\ spc' = [spc EXCEPT ![v] = "pd_check"]
    /\ UNCHANGED <<promptVars, detectVars, chunkVars, sectionVars, diskVars>>

\* lines 34-46: the file must exist; then the index is cleared on request
PdCheck(v) ==
    /\ spc[v] = "pd_check"
    /\ IF ~doc[v].exists
       THEN Raise(v)
       ELSE /\ spc' = [spc EXCEPT ![v] =
                  IF doc[v].clear_existing THEN "clear_delete" ELSE "pd_extract"]
            /\ UNCHANGED result
    /\ UNCHANGED <<promptVars, detectVars, chunkVars, sectionVars, diskVars, op, batch, doc, found, recovered, before>>

\* lines 48-57: extraction by file type; any other type raises ValueError
PdExtract(v) ==
    /\ spc[v] = "pd_extract"
    /\ \/ /\ doc[v].ext \in SupportedExt
          /\ spc' = [spc EXCEPT ![v] = "pd_embed"]
          /\ UNCHANGED result
       \/ Raise(v)
    /\ UNCHANGED <<promptVars, detectVars, chunkVars, sectionVars, diskVars, op, batch, doc, found, recovered, before>>

\* an ingestion that stores each chunk as soon as it is embedded, so that a
\* failure of the embedding leaves the first chunks in the index
PdEmbedWritesEarly(v) ==
    /\ spc[v] = "pd_embed"
    /\ \/ /\ \E b \in Batches :
                /\ next_id + Len(b) - 1 <= MaxIds
                /\ batch' = [batch EXCEPT ![v] = Prepare(b, next_id)]
                /\ next_id' = next_id + Len(b)
          /\ spc' = [spc EXCEPT ![v] = "add_write"]
          /\ UNCHANGED <<result, disk_entries>>
       \/ /\ Raise(v)
          /\ disk_entries' = IF disk_coll
                             THEN disk_entries \cup Range(Prepare(<<CHOOSE c \in Chunk : TRUE>>, 0))
                             ELSE disk_entries
          /\ UNCHANGED <<batch, next_id>>
    /\ UNCHANGED <<promptVars, detectVars, chunkVars, sectionVars, disk_exists, disk_coll, op, doc, found,
                   recovered, before>>

\* lines 63-98: chunking and embedding, then add_chunks (lines 57-83)
PdEmbed(v) ==
    /\ spc[v] = "pd_embed"
    /\ \/ /\ \E b \in Batches :
                /\ next_id + Len(b) - 1 <= MaxIds
                /\ batch' = [batch EXCEPT ![v] = Prepare(b, next_id)]
                /\ next_id' = next_id + Len(b)
          /\ spc' = [spc EXCEPT ![v] = "add_write"]
          /\ UNCHANGED result
       \/ /\ Raise(v)
          /\ UNCHANGED <<batch, next_id>>
    /\ UNCHANGED <<promptVars, detectVars, chunkVars, sectionVars, disk_exists, disk_coll, disk_entries, op, doc, found,
                   recovered, before>>

\* line 108: return self.vector_store.get_collection_info()
PdReturn(v) ==
    /\ spc[v] = "pd_return"
    /\ \/ disk_coll /\ Return(v, Cardinality(disk_entries))
       \/ Raise(v)
    /\ UNCHANGED <<promptVars, detectVars, chunkVars, sectionVars, diskVars, op, batch, doc, found, recovered, before>>

\* ------------------------------------------------------- RAGSystem.query
\* what PerplexityClient.query returns: the answer of the service, or the
\* text "Error generating response: ..." of its except branch
Answers == {"answer", "Error generating response"}

\* rag_system.py lines 114-116
Query(v) ==
    /\ spc[v] = "ready"
    /\ Begin(v, "query")
    /\ NoHits(v)
    /\ NoBatch(v) /\ NoDocument(v)
    /\ spc' = [spc EXCEPT ![v] = "query_embed"]
    /\ UNCHANGED <<promptVars, detectVars, chunkVars, sectionVars, diskVars>>

\* rag_system.py lines 118-120: the question is embedded; an exception of
\* the embedding model is not caught
QueryEmbed(v) ==
    /\ spc[v] = "query_embed"
    /\ \/ spc' = [spc EXCEPT ![v] = "query_search"] /\ UNCHANGED result
       \/ Raise(v)
    /\ UNCHANGED <<promptVars, detectVars, chunkVars, sectionVars, diskVars, op, batch, doc, found, recovered,
                   before>>

\* rag_system.py line 123, vector_store.py lines 115-139: the search
\* without type filter; an exception of collection.query is not caught
QuerySearch(v) ==
    /\ spc[v] = "query_search"
    /\ \/ /\ disk_coll
          /\ \E k \in 1..MaxTopK :
                \E hits \in QueryResults(disk_entries, k, "NoFilter") :
                   found' = [found EXCEPT ![v] =
                       [top_k |-> k, content_type |-> "NoFilter", hits |-> hits]]
          /\ spc' = [spc EXCEPT ![v] = "query_answer"]
          /\ UNCHANGED result
       \/ Raise(v) /\ UNCHANGED found
    /\ UNCHANGED <<promptVars, detectVars, chunkVars, sectionVars, diskVars, op, batch, doc, recovered, before>>

\* rag_system.py lines 128-135, perplexity_client.py lines 64-136: the
\* answer generator returns a text whatever happens inside it
QueryAnswer(v) ==
    /\ spc[v] = "query_answer"
    /\ \E a \in Answers : Return(v, a)
    /\ UNCHANGED <<promptVars, detectVars, chunkVars, sectionVars, diskVars, op, batch, doc, found, recovered,
                   before>>

-----------------------------------------------------------------------------
(* Chunker.chunk_by_sections and Chunker.chunk_all (src/chunker.py).        *)
(* The extracted content holds at most one text record, one image and one   *)
(* table per page (two tables on page 1); the text of a page is a sequence  *)
(* of lines, each a heading line or a sentence.                             *)

Pages == {1, 2, 3}
LineSymbols == HeadingLines \cup {SentencePiece}

\* match.group(1) and match.group(2).strip() of a heading line
NumberOf(h) == IF h = "5.3 Title" THEN "5.3" ELSE "5.4"
TitleOf(h) == "Title"

\* the content of the table and of the image extracted from page p
TableText(p) == CASE p = 1 -> "table 1" [] p = 2 -> "table 2" [] p = 3 -> "table 3"
                  [] OTHER -> "table"
ImageData(p) == CASE p = 1 -> "image 1" [] p = 2 -> "image 2" [] p = 3 -> "image 3"
                  [] OTHER -> "image"

RECURSIVE SortedSeq(_)
\* sorted(S)
SortedSeq(S) ==
    IF S = {} THEN <<>>
    ELSE LET least == CHOOSE x \in S : \A y \in S : x <= y
         IN  <<least>> \o SortedSeq(S \ {least})

RECURSIVE Concat(_)
\* the concatenation of a sequence of sequences
Concat(ss) == IF ss = <<>> THEN <<>> ELSE ss[1] \o Concat(Tail(ss))

\* the records of the extraction: one text record per page with lines
TextRecords(lines_of) ==
    LET ps == SortedSeq({p \in Pages : lines_of[p] # <<>>})
    IN  [i \in 1..Len(ps) |->
            [page |-> ps[i],
             content |-> Join([k \in 1..Len(lines_of[ps[i]]) |->
                                 <<lines_of[ps[i]][k]>>], <<"\n">>)]]

\* the content of a second table extracted from page 1
SecondTableText == "second table 1"

\* one table per page of the set, and a second one on page 1 if asked for
TableRecords(on, second) ==
    LET ps == SortedSeq(on)
    IN  (IF second /\ 1 \in on
         THEN <<[page |-> 1, content |-> <<TableText(1)>>],
                [page |-> 1, content |-> <<SecondTableText>>]>>
         ELSE <<>>)
        \o SelectSeq([i \in 1..Len(ps) |->
                        [page |-> ps[i], content |-> <<TableText(ps[i])>>]],
                     LAMBDA t : ~(second /\ t.page = 1))

ImageRecords(on) ==
    LET ps == SortedSeq(on)
    IN  [i \in 1..Len(ps) |-> [page |-> ps[i], content |-> <<ImageData(ps[i])>>]]

\* lines 149-175: page_content[page][kind], and all_pages
OnPage(records, page) == SelectSeq(records, LAMBDA r : r.page = page)
AllPages(c) ==
    {c.text[i].page : i \in DOMAIN c.text}
        \cup {c.tables[i].page : i \in DOMAIN c.tables}
        \cup {c.images[i].page : i \in DOMAIN c.images}

\* lines 181 and 207: '\n\n'.join of the text records of the page
PageText(c, page) ==
    Join([i \in 1..Len(OnPage(c.text, page)) |-> OnPage(c.text, page)[i].content],
         <<"\n", "\n">>)

RECURSIVE SplitLinesFrom(_, _, _, _)
\* t.split('\n')
SplitLinesFrom(t, i, cur, acc) ==
    IF i > Len(t) THEN Append(acc, cur)
    ELSE IF t[i] = "\n" THEN SplitLinesFrom(t, i + 1, <<>>, Append(acc, cur))
         ELSE SplitLinesFrom(t, i + 1, Append(cur, t[i]), acc)

SplitLines(t) == SplitLinesFrom(t, 1, <<>>, <<>>)

RECURSIVE StripLeft(_)
StripLeft(t) == IF t # <<>> /\ t[1] \in Whitespace THEN StripLeft(Tail(t)) ELSE t

RECURSIVE StripRight(_)
StripRight(t) ==
    IF t # <<>> /\ t[Len(t)] \in Whitespace
    THEN StripRight(SubSeq(t, 1, Len(t) - 1))
    ELSE t

\* t.strip()
Strip(t) == StripRight(StripLeft(t))

\* lines 118-129: the stripped line matches one of the heading patterns
IsHeading(line) == line # <<>> /\ line[1] \in HeadingLines

RECURSIVE DetectFrom(_, _, _)
\* lines 125-138
DetectFrom(lines, i, acc) ==
    IF i > Len(lines) THEN acc
    ELSE IF IsHeading(Strip(lines[i]))
         THEN DetectFrom(lines, i + 1,
                Append(acc, [number |-> NumberOf(Strip(lines[i])[1]),
                             title |-> TitleOf(Strip(lines[i])[1]),
                             line_index |-> i - 1]))
         ELSE DetectFrom(lines, i + 1, acc)

\* lines 114-140
DetectSections(t) == DetectFrom(SplitLines(t), 1, <<>>)

\* section_num in section_map: the place of the section in the map, or 0
MapIndex(map, num) ==
    IF \E i \in DOMAIN map : map[i].number = num
    THEN CHOOSE i \in DOMAIN map : map[i].number = num
    ELSE 0

\* a heading seen again makes every page since the first part of the section
NoteSectionFillsRange(map, section, page) ==
    IF MapIndex(map, section.number) = 0
    THEN Append(map, [number |-> section.number, title |-> section.title,
                      start_page |-> page, end_page |-> page, pages |-> <<page>>])
    ELSE [map EXCEPT ![MapIndex(map, section.number)] =
            [@ EXCEPT !.end_page = page,
                      !.pages = [k \in 1..(page - map[MapIndex(map, section.number)].start_page + 1) |->
                                    map[MapIndex(map, section.number)].start_page + k - 1]]]

\* a heading seen again starts its section anew on the page
NoteSectionRestarts(map, section, page) ==
    IF MapIndex(map, section.number) = 0
    THEN Append(map, [number |-> section.number, title |-> section.title,
                      start_page |-> page, end_page |-> page, pages |-> <<page>>])
    ELSE [map EXCEPT ![MapIndex(map, section.number)] =
            [@ EXCEPT !.start_page = page, !.end_page = page, !.pages = <<page>>]]

\* lines 185-198: one detected heading is entered into the section map
NoteSection(map, section, page) ==
    IF MapIndex(map, section.number) = 0
    THEN Append(map, [number |-> section.number, title |-> section.title,
                      start_page |-> page, end_page |-> page, pages |-> <<page>>])
    ELSE [map EXCEPT ![MapIndex(map, section.number)] =
            [@ EXCEPT !.end_page = page,
                      !.pages = IF \E k \in DOMAIN @ : @[k] = page
                                THEN @ ELSE Append(@, page)]]

RECURSIVE NoteSections(_, _, _, _)
\* lines 184-198
NoteSections(map, sections, i, page) ==
    IF i > Len(sections) THEN map
    ELSE NoteSections(NoteSection(map, sections[i], page), sections, i + 1, page)

\* a table appended without its label
TableSuffixBare(table) == <<"\n", "\n">> \o table.content

\* lines 240 and 307
TableSuffix(table) == <<"\n", "\n", "Table:", "\n">> \o table.content

\* page_content[page]['tables'] if page in page_content, else nothing
TablesOn(c, page) == OnPage(c.tables, page)

\* lines 218-228: the tables of a section that continues on this page
ContinuationTables(c, map, page) ==
    IF \E i \in DOMAIN map :
          (\E k \in DOMAIN map[i].pages : map[i].pages[k] = page)
          /\ page > map[i].start_page
    THEN TablesOn(c, page) \o TablesOn(c, page + 1)
    ELSE <<>>

\* lines 212-256: a page without headings
NoSectionChunks(c, map, page) ==
    LET text_chunks == ChunkText(PageText(c, page), TEXT_CHUNK_SIZE, TEXT_CHUNK_OVERLAP)
        section_tables == IF ContinuationTables(c, map, page) # <<>>
                          THEN ContinuationTables(c, map, page)
                          ELSE TablesOn(c, page)
        last == Len(text_chunks)
    IN  [ci \in 1..last |->
            [type |-> IF ci = last /\ TablesOn(c, page) # <<>> THEN "mixed" ELSE "text",
             page |-> page,
             content |-> IF ci = last /\ section_tables # <<>>
                         THEN text_chunks[ci] \o
                              Concat([k \in 1..Len(section_tables) |->
                                         TableSuffix(section_tables[k])])
                         ELSE text_chunks[ci],
             chunk_index |-> ci - 1,
             total_chunks |-> last,
             section_number |-> "none",
             section_title |-> "none",
             section_based |-> FALSE]]

\* lines 281-293 and 360-371: the tables of a section
SectionTables(c, map, page, num) ==
    IF MapIndex(map, num) # 0
    THEN Concat([k \in 1..Len(map[MapIndex(map, num)].pages) |->
                    TablesOn(c, map[MapIndex(map, num)].pages[k])])
    ELSE TablesOn(c, page) \o TablesOn(c, page + 1)

\* lines 325-342: the tables of a section without text chunks
StandaloneTables(page, section, section_tables) ==
    [k \in 1..Len(section_tables) |->
        [type |-> "table",
         page |-> page,
         content |-> section_tables[k].content,
         chunk_index |-> 0,
         total_chunks |-> 1,
         section_number |-> section.number,
         section_title |-> section.title,
         section_based |-> TRUE]]

\* lines 270-342 (a section followed by another on the page, inner = TRUE)
\* and lines 351-396 (the last section of the page)
UnitChunks(c, map, page, section, section_text, inner) ==
    IF Strip(section_text) = <<>> THEN <<>>
    ELSE
    LET text_chunks == ChunkText(Strip(section_text), TEXT_CHUNK_SIZE, TEXT_CHUNK_OVERLAP)
        section_tables == SectionTables(c, map, page, section.number)
        last == Len(text_chunks)
        heading == <<"Section", " ", section.number, " ", section.title>>
        parts(ci) == <<heading, text_chunks[ci]>> \o
                      (IF ci = last /\ section_tables # <<>>
                       THEN [k \in 1..Len(section_tables) |->
                                TableSuffix(section_tables[k])]
                       ELSE <<>>)
    IN  [ci \in 1..last |->
            [type |-> IF section_tables # <<>> /\ ci = last THEN "mixed" ELSE "text",
             page |-> page,
             content |-> Join(parts(ci), <<"\n", "\n">>),
             chunk_index |-> ci - 1,
             total_chunks |-> last,
             section_number |-> section.number,
             section_title |-> section.title,
             section_based |-> TRUE]]
        \o (IF inner /\ text_chunks = <<>> /\ section_tables # <<>>
            THEN StandaloneTables(page, section, section_tables)
            ELSE <<>>)

\* lines 257-396: a page with headings; the text before the first heading
\* belongs to no section (current_section is None at the first heading)
SectionBranchChunks(c, map, page) ==
    LET lines == SplitLines(PageText(c, page))
        sections == DetectSections(PageText(c, page))
        n == Len(sections)
    IN  Concat([j \in 1..n |->
            IF j < n
            THEN UnitChunks(c, map, page, sections[j],
                    Join(SubSeq(lines, sections[j].line_index + 1,
                                sections[j + 1].line_index), <<"\n">>), TRUE)
            ELSE UnitChunks(c, map, page, sections[j],
                    Join(SubSeq(lines, sections[j].line_index + 1, Len(lines)),
                         <<"\n">>), FALSE)])

\* the images of a page emitted as text of the page
ImageChunksAsText(c, page) ==
    [k \in 1..Len(OnPage(c.images, page)) |->
        [type |-> "text",
         page |-> page,
         content |-> OnPage(c.images, page)[k].content,
         chunk_index |-> 0,
         total_chunks |-> 1,
         section_number |-> "none",
         section_title |-> "none",
         section_based |-> FALSE]]

\* the images of a page are dropped from the output
NoImageChunks(c, page) == <<>>

\* lines 398-411: the images of the page
ImageChunks(c, page) ==
    [k \in 1..Len(OnPage(c.images, page)) |->
        [type |-> "image",
         page |-> page,
         content |-> OnPage(c.images, page)[k].content,
         chunk_index |-> 0,
         total_chunks |-> 1,
         section_number |-> "none",
         section_title |-> "none",
         section_based |-> FALSE]]

\* lines 203-411: the chunks of one page
PageChunks(c, map, page) ==
    (IF DetectSections(PageText(c, page)) = <<>>
     THEN NoSectionChunks(c, map, page)
     ELSE SectionBranchChunks(c, map, page))
    \o ImageChunks(c, page)

\* chunk_text_content numbering the chunks of a record from 1
ChunkTextContentFromOne(text_records) ==
    Concat([i \in 1..Len(text_records) |->
        LET cs == ChunkText(text_records[i].content, TEXT_CHUNK_SIZE, TEXT_CHUNK_OVERLAP)
        IN  [ci \in 1..Len(cs) |->
                [type |-> "text",
                 page |-> text_records[i].page,
                 content |-> cs[ci],
                 chunk_index |-> ci,
                 total_chunks |-> Len(cs),
                 section_number |-> "none",
                 section_title |-> "none",
                 section_based |-> FALSE]]])

\* lines 47-68: chunk_text_content
ChunkTextContent(text_records) ==
    Concat([i \in 1..Len(text_records) |->
        LET cs == ChunkText(text_records[i].content, TEXT_CHUNK_SIZE, TEXT_CHUNK_OVERLAP)
        IN  [ci \in 1..Len(cs) |->
                [type |-> "text",
                 page |-> text_records[i].page,
                 content |-> cs[ci],
                 chunk_index |-> ci - 1,
                 total_chunks |-> Len(cs),
                 section_number |-> "none",
                 section_title |-> "none",
                 section_based |-> FALSE]]])

\* lines 71-89 and 92-111: chunk_image_content, chunk_table_content
ChunkOnePerRecord(records, kind) ==
    [i \in 1..Len(records) |->
        [type |-> kind,
         page |-> records[i].page,
         content |-> records[i].content,
         chunk_index |-> 0,
         total_chunks |-> 1,
         section_number |-> "none",
         section_title |-> "none",
         section_based |-> FALSE]]

NoChunks == [text |-> <<>>, images |-> <<>>, tables |-> <<>>]

\* chunk_all(content, use_sections) on the content of any small document
InitChunkAll ==
    /\ \E n \in 0..MaxDocLines :
         \E ls \in [1..n -> LineSymbols], tables_on \in SUBSET Pages,
            images_on \in {{}} \cup {{p} : p \in Pages} :
           \E c1 \in 0..n, second \in {b \in BOOLEAN : b => 1 \in tables_on} :
             \E c2 \in c1..n :
                content = [text |-> TextRecords(<<SubSeq(ls, 1, c1),
                                                   SubSeq(ls, c1 + 1, c2),
                                                   SubSeq(ls, c2 + 1, n)>>),
                           tables |-> TableRecords(tables_on, second),
                           images |-> ImageRecords(images_on)]
    /\ use_sections \in BOOLEAN
    /\ cpc = "called"
    /\ cursor = 1
    /\ section_map = <<>>
    /\ section_chunks = <<>>
    /\ chunked = NoChunks
    /\ all_chunks = <<>>

\* lines 440-445: chunk_all without sections
ChunkAllPlain ==
    /\ cpc = "called"
    /\ ~use_sections
    /\ chunked' = [text |-> ChunkTextContent(content.text),
                   images |-> ChunkOnePerRecord(content.images, "image"),
                   tables |-> ChunkOnePerRecord(content.tables, "table")]
    /\ cpc' = "done"
    /\ UNCHANGED <<promptVars, detectVars, chunkVars, storeVars, all_chunks, content, use_sections, cursor, section_map, section_chunks>>

\* lines 423-425 and 149-178: chunk_by_sections is entered
EnterChunkBySections ==
    /\ cpc = "called"
    /\ use_sections
    /\ cpc' = "scan"
    /\ UNCHANGED <<promptVars, detectVars, chunkVars, storeVars, all_chunks, content, use_sections, cursor, section_map, section_chunks,
                   chunked>>

\* lines 180-198: the first pass looks at the next page
ScanPage ==
    /\ cpc = "scan"
    /\ cursor <= Len(SortedSeq(AllPages(content)))
    /\ LET page == SortedSeq(AllPages(content))[cursor]
       IN  section_map' = NoteSections(section_map,
                              DetectSections(PageText(content, page)), 1, page)
    /\ cursor' = cursor + 1
    /\ UNCHANGED <<promptVars, detectVars, chunkVars, storeVars, all_chunks, content, use_sections, cpc, section_chunks, chunked>>

\* lines 200-201: the first pass is over
ScanDone ==
    /\ cpc = "scan"
    /\ cursor > Len(SortedSeq(AllPages(content)))
    /\ cpc' = "assemble"
    /\ cursor' = 1
    /\ UNCHANGED <<promptVars, detectVars, chunkVars, storeVars, all_chunks, content, use_sections, section_map, section_chunks, chunked>>

\* lines 203-411: the second pass emits the chunks of the next page
AssemblePage ==
    /\ cpc = "assemble"
    /\ cursor <= Len(SortedSeq(AllPages(content)))
    /\ section_chunks' = section_chunks \o
            PageChunks(content, section_map, SortedSeq(AllPages(content))[cursor])
    /\ cursor' = cursor + 1
    /\ UNCHANGED <<promptVars, detectVars, chunkVars, storeVars, all_chunks, content, use_sections, cpc, section_map, chunked>>

\* lines 413 and 427-438: chunk_by_sections returns, chunk_all groups the
\* chunks by type
GroupByType ==
    /\ cpc = "assemble"
    /\ cursor > Len(SortedSeq(AllPages(content)))
    /\ chunked' = [text |-> SelectSeq(section_chunks,
                                LAMBDA ch : ch.type \in {"text", "mixed"}),
                   images |-> SelectSeq(section_chunks, LAMBDA ch : ch.type = "image"),
                   tables |-> SelectSeq(section_chunks, LAMBDA ch : ch.type = "table")]
    /\ cpc' = "done"
    /\ UNCHANGED <<promptVars, detectVars, chunkVars, storeVars, all_chunks, content, use_sections, cursor, section_map, section_chunks>>

\* rag_system.py lines 65 and 87-98: process_document calls chunk_all with
\* sections, puts the text, image and table chunks it returned one list after
\* the other, embeds each chunk in that order and hands the list to add_chunks
HandToIndex ==
    /\ cpc = "done"
    /\ use_sections
    /\ all_chunks' = chunked.text \o chunked.images \o chunked.tables
    /\ cpc' = "handed"
    /\ UNCHANGED <<promptVars, detectVars, chunkVars, storeVars, content, use_sections, cursor,
                   section_map, section_chunks, chunked>>

-----------------------------------------------------------------------------
(* PerplexityClient.query (src/perplexity_client.py): the context handed   *)
(* to the language model.                                                   *)

ContextTypes == {"table", "text", "image", "unknown"}

\* the contents of the retrieved results: whole blocks, then at most one
\* more character
ContextContents ==
    {[i \in 1..k |-> Block] \o t : k \in 0..MaxBlocks, t \in {<<>>, <<"a">>}}

ContextItem == [type : ContextTypes, content : ContextContents]

Contexts == UNION {[1..n -> ContextItem] : n \in 0..MaxContext}

\* line 81
ContinuesMarker == <<"\n", ContinuesWords>>

\* a snippet that takes the whole content whatever its length
SnippetUncut(content_type, c) ==
    IF content_type = "table" /\ StrLen(c) > TableBudget
    THEN c \o ContinuesMarker
    ELSE c

\* lines 77-88: the part of a result's content that enters the prompt
Snippet(content_type, c) ==
    IF content_type = "table"
    THEN (IF StrLen(c) > TableBudget THEN TakeChars(c, TableBudget) ELSE c)
         \o (IF StrLen(c) > TableBudget THEN ContinuesMarker ELSE <<>>)
    ELSE IF content_type = "text"
    THEN (IF StrLen(c) > TextBudget THEN TakeChars(c, TextBudget) ELSE c)
    ELSE (IF StrLen(c) > OtherBudget THEN TakeChars(c, OtherBudget) ELSE c)

\* query(question, context) is called with any retrieved context
InitPrompt ==
    /\ context \in Contexts
    /\ item_no = 1
    /\ context_parts = <<>>
    /\ ppc = "format"
    /\ answer = "none"

\* lines 70-91: one pass of the loop over the context
FormatItem ==
    /\ ppc = "format"
    /\ item_no <= Len(context)
    /\ context_parts' = Append(context_parts,
                               [type |-> context[item_no].type,
                                snippet |-> Snippet(context[item_no].type,
                                                    context[item_no].content)])
    /\ item_no' = item_no + 1
    /\ UNCHANGED <<context, ppc, answer, chunkVars, storeVars, sectionVars, detectVars>>

\* lines 93-136: the prompt is posted; the reply, or the text of the
\* exception, is returned
PostPrompt ==
    /\ ppc = "format"
    /\ item_no > Len(context)
    /\ answer' \in Answers
    /\ ppc' = "done"
    /\ UNCHANGED <<context, item_no, context_parts, chunkVars, storeVars, sectionVars,
                   detectVars>>

-----------------------------------------------------------------------------
(* Chunker.detect_sections (src/chunker.py) character by character: the    *)
(* three patterns of lines 118-122 as re.match applies them, with           *)
(* re.IGNORECASE, to a stripped line.                                       *)

Digits == {"5"}
Uppercase == {"T", "Section"}
Lowercase == {"t"}
\* the characters of the texts tried; "Section" is the word as a whole
DetectChars == Digits \cup Uppercase \cup Lowercase \cup {".", ":", " ", "\n"}

DetectTexts == UNION {[1..n -> DetectChars] : n \in 0..MaxLineLen}

\* [A-Z] under re.IGNORECASE: the flag makes the class match both cases
MatchesAZ(a) == a \in Uppercase \cup Lowercase

RECURSIVE SkipDigits(_, _)
\* \d* from index i: the index after the run of digits
SkipDigits(line, i) ==
    IF i <= Len(line) /\ line[i] \in Digits THEN SkipDigits(line, i + 1) ELSE i

RECURSIVE SkipWs(_, _)
\* \s* from index i: the index after the run of whitespace
SkipWs(line, i) ==
    IF i <= Len(line) /\ line[i] \in Whitespace THEN SkipWs(line, i + 1) ELSE i

\* \d+\.\d+(?:\.\d+)? from index i: the indexes at which a match can end
NumberEnds(line, i) ==
    LET a == SkipDigits(line, i)
        b == SkipDigits(line, a + 1)
        c == SkipDigits(line, b + 1)
    IN  IF a > i /\ a <= Len(line) /\ line[a] = "." /\ b > a + 1
        THEN (a + 1)..(b - 1)
             \cup (IF b <= Len(line) /\ line[b] = "." THEN (b + 1)..(c - 1) ELSE {})
        ELSE {}

\* the greatest of a non-empty set of indexes: the match tried first
Greatest(S) == CHOOSE e \in S : \A f \in S : f <= e

\* line 119: ^(\d+\.\d+(?:\.\d+)?)\s+(.+?)(?:\n|$)
DottedEnds(line) ==
    {e \in NumberEnds(line, 1) : e < Len(line) /\ line[e + 1] \in Whitespace}

MatchDotted(line) ==
    IF DottedEnds(line) = {} THEN <<>>
    ELSE LET e == Greatest(DottedEnds(line))
         IN  <<[number |-> SubSeq(line, 1, e),
                title |-> Strip(SubSeq(line, SkipWs(line, e + 1), Len(line)))]>>

\* line 120: ^Section\s+(\d+\.\d+(?:\.\d+)?)\s*:?\s*(.+?)(?:\n|$); the title
\* needs a character, so the number ends before the end of the line and a
\* colon that ends the line is the title
SectionEnds(line) ==
    IF Len(line) >= 2 /\ line[1] = "Section" /\ line[2] \in Whitespace
    THEN {e \in NumberEnds(line, SkipWs(line, 2)) : e < Len(line)}
    ELSE {}

MatchSection(line) ==
    IF SectionEnds(line) = {} THEN <<>>
    ELSE LET e == Greatest(SectionEnds(line))
             p == SkipWs(line, e + 1)
             q == IF p < Len(line) /\ line[p] = ":" THEN SkipWs(line, p + 1) ELSE p
             from == IF q <= Len(line) THEN q
                     ELSE IF p <= Len(line) THEN p ELSE Len(line)
         IN  <<[number |-> SubSeq(line, SkipWs(line, 2), e),
                title |-> Strip(SubSeq(line, from, Len(line)))]>>

\* line 121: ^(\d+)\s+([A-Z][^\n]+?)(?:\n|$)
MatchMajor(line) ==
    LET a == SkipDigits(line, 1)
        p == SkipWs(line, a)
    IN  IF /\ a > 1 /\ p > a /\ p <= Len(line)
           /\ MatchesAZ(line[p])
           /\ StrLen(SubSeq(line, p, Len(line))) >= 2
        THEN <<[number |-> SubSeq(line, 1, a - 1),
                title |-> Strip(SubSeq(line, p, Len(line)))]>>
        ELSE <<>>

\* lines 127-138: the first pattern that matches the stripped line
MatchLine(line) ==
    IF MatchDotted(line) # <<>> THEN MatchDotted(line)
    ELSE IF MatchSection(line) # <<>> THEN MatchSection(line)
    ELSE MatchMajor(line)

RECURSIVE DetectLinesFrom(_, _, _)
\* lines 125-138
DetectLinesFrom(lines, i, acc) ==
    IF i > Len(lines) THEN acc
    ELSE LET found_here == MatchLine(Strip(lines[i]))
         IN  DetectLinesFrom(lines, i + 1,
                IF found_here = <<>> THEN acc
                ELSE Append(acc, [number |-> found_here[1].number,
                                  title |-> found_here[1].title,
                                  line_index |-> i - 1,
                                  full_match |-> Strip(lines[i])]))

\* detect_sections(text) is called with any text
InitDetect ==
    /\ dtext \in DetectTexts
    /\ dpc = "call"
    /\ detected = <<>>

\* lines 114-140
DetectCall ==
    /\ dpc = "call"
    /\ detected' = DetectLinesFrom(SplitLines(dtext), 1, <<>>)
    /\ dpc' = "done"
    /\ UNCHANGED <<dtext, chunkVars, storeVars, sectionVars, promptVars>>

-----------------------------------------------------------------------------
(* Specifications.                                                          *)

\* PerplexityClient.query not called
NoPrompt ==
    /\ context = <<>>
    /\ item_no = 1
    /\ context_parts = <<>>
    /\ ppc = "idle"
    /\ answer = "none"

\* detect_sections not called
NoDetect ==
    /\ dtext = <<>>
    /\ dpc = "idle"
    /\ detected = <<>>

\* chunk_text idle: no call in progress
NoChunkText ==
    /\ text = <<>>
    /\ chunk_size = 1
    /\ overlap = 0
    /\ sentences = <<>>
    /\ idx = 1
    /\ chunks = <<>>
    /\ current_chunk = <<>>
    /\ current_length = 0
    /\ pc = "idle"

\* no VectorStore constructed, no index directory
NoStore ==
    /\ InitStore
    /\ disk_exists = FALSE

\* chunk_all not called
NoChunkAll ==
    /\ content = [text |-> <<>>, tables |-> <<>>, images |-> <<>>]
    /\ use_sections = TRUE
    /\ cpc = "idle"
    /\ cursor = 1
    /\ section_map = <<>>
    /\ section_chunks = <<>>
    /\ chunked = NoChunks
    /\ all_chunks = <<>>

\* one call of Chunker.chunk_text on any text
InitChunk == InitChunkText /\ NoStore /\ NoChunkAll /\ NoPrompt /\ NoDetect

NextChunk ==
    \/ EmitOnOverflow
    \/ AppendSentence
    \/ FlushRemaining

SpecChunk == InitChunk /\ [][NextChunk]_vars

\* one RAGSystem with its VectorStore, the only user of the index directory
InitOneStore == NoChunkText /\ InitStore /\ NoChunkAll /\ NoPrompt /\ NoDetect

NextStore ==
    \/ Construct("A")
    \/ InitOpen("A")
    \/ ResetDatabase("A")
    \/ Reopen("A")
    \/ InitGet("A")
    \/ CreateCollection("A")
    \/ AddChunks("A")
    \/ AddWrite("A")
    \/ ClearCollection("A")
    \/ ClearDelete("A")
    \/ Search("A")
    \/ ProcessDocument("A")
    \/ PdCheck("A")
    \/ PdExtract("A")
    \/ PdEmbed("A")
    \/ PdReturn("A")
    \/ Query("A")
    \/ QueryEmbed("A")
    \/ QuerySearch("A")
    \/ QueryAnswer("A")

SpecStore == InitOneStore /\ [][NextStore]_vars

\* one call of Chunker.chunk_all on the content of any small document
InitSections == NoChunkText /\ NoStore /\ InitChunkAll /\ NoPrompt /\ NoDetect

NextSections ==
    \/ ChunkAllPlain
    \/ EnterChunkBySections
    \/ ScanPage
    \/ ScanDone
    \/ AssemblePage
    \/ GroupByType
    \/ HandToIndex

SpecSections == InitSections /\ [][NextSections]_vars

\* one call of PerplexityClient.query on any context
InitContext == NoChunkText /\ NoStore /\ NoChunkAll /\ InitPrompt /\ NoDetect

NextContext ==
    \/ FormatItem
    \/ PostPrompt

SpecContext == InitContext /\ [][NextContext]_vars

\* one call of Chunker.detect_sections on any short text
InitDetectCall == NoChunkText /\ NoStore /\ NoChunkAll /\ NoPrompt /\ InitDetect

NextDetect == DetectCall

SpecDetect == InitDetectCall /\ [][NextDetect]_vars

-----------------------------------------------------------------------------
(* Claims about Chunker.chunk_text.                                         *)

RECURSIVE MaxLenOf(_)
\* the length of the longest element of a sequence of strings
MaxLenOf(ss) == IF ss = <<>> THEN 0 ELSE Max(StrLen(ss[1]), MaxLenOf(Tail(ss)))

\* C2: every chunk returned by chunk_text is at most chunk_size plus the
\* length of one full sentence of the input long, for every chunk_size >= 1
\* and every overlap >= 0.
C2_SizeBound ==
    pc = "done" =>
        \A k \in 1..Len(chunks) :
            StrLen(chunks[k]) <= chunk_size + MaxLenOf(sentences)

RECURSIVE NormFrom(_, _, _)
\* t with every whitespace run that follows a sentence end replaced by one
\* space: the whitespace normalization the coverage claim allows
NormFrom(t, i, acc) ==
    IF i > Len(t) THEN acc
    ELSE IF t[i] \in Whitespace /\ i > 1 /\ EndsSentence(t[i - 1])
         THEN NormFrom(t, WsRunEnd(t, i) + 1, Append(acc, " "))
         ELSE NormFrom(t, i + 1, Append(acc, t[i]))

NormalizeWs(t) == NormFrom(t, 1, <<>>)

RECURSIVE Reassembles(_, _, _, _)
\* chunks cs[k..], each with a leading duplicate of the tail of its
\* predecessor removed, continue target from position pos to its end
Reassembles(cs, k, target, pos) ==
    IF k > Len(cs) THEN pos = Len(target)
    ELSE \E o \in 0..Len(cs[k]) :
            /\ \/ o = 0
               \/ /\ k > 1
                  /\ cs[k][o] = " "
                  /\ IsSuffix(SubSeq(cs[k], 1, o - 1), cs[k - 1])
            /\ LET rest == DropFirst(cs[k], o)
                   piece == IF k = 1 THEN rest ELSE <<" ">> \o rest
               IN  /\ IsPrefix(piece, DropFirst(target, pos))
                   /\ Reassembles(cs, k + 1, target, pos + Len(piece))

\* C3: coverage: every sentence of the input appears unaltered in a chunk,
\* and the chunks with their overlap duplicates removed, concatenated in
\* order, reproduce the input up to whitespace normalization.
C3_Coverage ==
    pc = "done" =>
        /\ \A i \in 1..Len(sentences) :
              \E k \in 1..Len(chunks) : IsSubstring(sentences[i], chunks[k])
        /\ Reassembles(chunks, 1, NormalizeWs(text), 0)

\* a text of three sentences cut into three chunks, two of them with overlap
C3_Witness ==
    /\ pc = "done"
    /\ Len(sentences) = 3
    /\ Len(chunks) = 3
    /\ Len(chunks[3]) > Len(sentences[3])

-----------------------------------------------------------------------------
(* Claims about VectorStore and RAGSystem.process_document.                 *)

\* the call of object v in progress has ended
Ended(v) == result[v].outcome # "none"

\* C6: process_document called with a missing file or with a file of an
\* unsupported type raises, and leaves the entries of the index as they were
\* before the call, for either value of clear_existing.
C6_InputErrorsKeepIndex ==
    \A v \in Instances :
        (/\ op[v] = "process"
         /\ Ended(v)
         /\ (~doc[v].exists \/ doc[v].ext \notin SupportedExt))
        => (result[v].outcome = "raised" /\ disk_entries = before[v])

\* C7: a construction that met a corruption error on opening the store and
\* finished has removed the index that was there and holds an existing,
\* empty, queryable collection; has_data() is False.
C7_OpenRecovery ==
    \A v \in Instances :
        (op[v] = "init" /\ "open" \in recovered[v] /\ result[v].outcome = "returned")
        => (/\ disk_exists
            /\ disk_coll
            /\ disk_entries = {}
            /\ ~HasData(v)
            /\ ENABLED Search(v))

\* an index with data was lost to the recovery on open
C7_Witness ==
    /\ op["A"] = "init"
    /\ recovered["A"] = {"open"}
    /\ result["A"].outcome = "returned"
    /\ before["A"] # {}

\* C8: a call of __init__, add_chunks or process_document during which the
\* delete-and-rebuild recovery ran hands its caller a signal that differs
\* from the one of a call without recovery. The calls return None or the
\* collection's statistics, neither of which says whether a recovery ran, so
\* the only distinguishing signal is a raised error.
C8_RecoverySignalled ==
    \A v \in Instances :
        (/\ op[v] \in {"init", "add", "process"}
         /\ Ended(v)
         /\ recovered[v] \cap {"open", "collection", "write"} # {})
        => result[v].outcome = "raised"

\* C9: add_chunks on a healthy store adds exactly its n chunks, under n ids
\* that are pairwise distinct and new, and changes no entry stored before,
\* also when the same chunks are stored already.
C9_AddIsAdditive ==
    \A v \in Instances :
        (op[v] = "add" /\ result[v].outcome = "returned" /\ recovered[v] = {})
        => (/\ Cardinality(disk_entries) = Cardinality(before[v]) + Len(batch[v])
            /\ before[v] \subseteq disk_entries
            /\ \A i, j \in 1..Len(batch[v]) : batch[v][i].id = batch[v][j].id => i = j
            /\ \A i \in 1..Len(batch[v]) :
                  \A e \in before[v] : e.id # batch[v][i].id
            /\ Range(batch[v]) \subseteq disk_entries)

\* a batch whose documents were all stored before is stored again
C9_Witness ==
    /\ op["A"] = "add"
    /\ result["A"].outcome = "returned"
    /\ recovered["A"] = {}
    /\ Len(batch["A"]) = Cardinality(before["A"])
    /\ \A i \in 1..Len(batch["A"]) :
          \E e \in before["A"] :
             e.type = batch["A"][i].type /\ e.document = batch["A"][i].document
    /\ Cardinality(disk_entries) = 2 * Len(batch["A"])

\* C10: a search with a type filter returns only entries of the index whose
\* stored type equals the filter, and at most top_k of them.
C10_SearchFilter ==
    \A v \in Instances :
        found[v].content_type # "NoFilter"
        => (/\ found[v].hits \subseteq disk_entries
            /\ \A h \in found[v].hits : h.type = found[v].content_type
            /\ Cardinality(found[v].hits) <= found[v].top_k)

\* a filtered search over an index that holds entries of another type too,
\* and more entries of the type asked for than top_k
C10_Witness ==
    /\ op["A"] = "search"
    /\ found["A"].content_type = "table"
    /\ found["A"].hits # {}
    /\ \E e \in disk_entries : e.type = "text"
    /\ Cardinality({e \in disk_entries : e.type = "table"}) > found["A"].top_k

-----------------------------------------------------------------------------
(* Claims about Chunker.chunk_all and Chunker.chunk_by_sections.            *)

\* every chunk chunk_all returned
AllChunked == chunked.text \o chunked.images \o chunked.tables

Occurs(sym, str) == \E i \in DOMAIN str : str[i] = sym

\* the places in a list of chunks where the content of the record shows up
ChunksOf(record, cs) == {i \in DOMAIN cs : Occurs(record.content[1], cs[i].content)}

\* the record became one chunk of its own in the list, marked 0 of 1
OneOwnChunk(record, cs) ==
    /\ Cardinality(ChunksOf(record, cs)) = 1
    /\ \A i \in ChunksOf(record, cs) :
          /\ cs[i].content = record.content
          /\ cs[i].page = record.page
          /\ cs[i].total_chunks = 1
          /\ cs[i].chunk_index = 0

HeadingPages(num) ==
    {p \in AllPages(content) :
        \E i \in DOMAIN DetectSections(PageText(content, p)) :
            DetectSections(PageText(content, p))[i].number = num}

\* C5: if the same heading number is detected on pages p < q, then after
\* chunk_by_sections the pages of the section contain p and q, and every table
\* on a page after p and up to q is appended to a chunk whose section_number
\* is that heading number.
C5_SectionContinuity ==
    (cpc = "done" /\ use_sections) =>
        \A num \in {"5.3", "5.4"} :
            \A p \in HeadingPages(num), q \in HeadingPages(num) :
                p < q =>
                    /\ MapIndex(section_map, num) # 0
                    /\ \A r \in {p, q} :
                          \E k \in DOMAIN section_map[MapIndex(section_map, num)].pages :
                              section_map[MapIndex(section_map, num)].pages[k] = r
                    /\ \A i \in DOMAIN content.tables :
                          (p < content.tables[i].page /\ content.tables[i].page <= q) =>
                              \E k \in DOMAIN AllChunked :
                                  /\ AllChunked[k].section_number = num
                                  /\ Occurs(content.tables[i].content[1],
                                            AllChunked[k].content)

-----------------------------------------------------------------------------
(* Further claims about Chunker.chunk_text.                                 *)

RECURSIVE SpacedFrom(_, _)
\* the pieces from the i-th on, written one after the other with one space
\* between neighbours
SpacedFrom(parts, i) ==
    IF i > Len(parts) THEN <<>>
    ELSE (IF i > 1 THEN <<" ">> ELSE <<>>) \o parts[i] \o SpacedFrom(parts, i + 1)

\* C18: when the sentences of the input joined by single spaces have total
\* length at most chunk_size, chunk_text returns exactly one chunk, equal to
\* that joined text.
C18_ShortTextOneChunk ==
    (pc = "done" /\ StrLen(SpacedFrom(sentences, 1)) <= chunk_size) =>
        chunks = <<SpacedFrom(sentences, 1)>>

\* chunk_text returned for a text of several sentences that fits chunk_size
C18_Witness ==
    /\ pc = "done"
    /\ Len(sentences) >= 2
    /\ StrLen(SpacedFrom(sentences, 1)) <= chunk_size
    /\ Len(chunks) = 1

\* C19: whenever a buffer is emitted because the next sentence would overflow
\* chunk_size, the new buffer is a tail of the emitted buffer of at least one
\* and at most max(1, overlap div 50) of its sentences, followed by the
\* sentence that triggered the overflow, for every overlap >= 0.
C19_TailOverlap ==
    [][(pc = "loop" /\ pc' = "loop" /\ Len(chunks') = Len(chunks) + 1) =>
          \E k \in 1..Max(1, overlap \div OverlapDivisor) :
              /\ k <= Len(current_chunk)
              /\ LET tail == SpacedFrom(SubSeq(current_chunk,
                                               Len(current_chunk) - k + 1,
                                               Len(current_chunk)), 1)
                 IN  current_chunk' = IF tail = <<>>
                                      THEN <<sentences[idx]>>
                                      ELSE <<tail, sentences[idx]>>]_vars

-----------------------------------------------------------------------------
(* Further claims about Chunker.chunk_all, Chunker.chunk_by_sections and    *)
(* the chunks RAGSystem.process_document indexes.                           *)

\* C11: the sequence of chunks process_document hands to add_chunks is exactly
\* the sequence emitted by the chunk assembler (page order, then section
\* order, then chunk_index); no chunk of a later page comes before a chunk of
\* an earlier page, whatever the chunk types.
C11_IndexingOrder ==
    cpc = "handed" =>
        /\ all_chunks = section_chunks
        /\ \A i \in DOMAIN all_chunks, j \in DOMAIN all_chunks :
              i < j => all_chunks[i].page <= all_chunks[j].page

\* the text-derived chunks chunk_by_sections emitted for a page
TextChunksOf(page) ==
    SelectSeq(section_chunks,
              LAMBDA ch : ch.page = page /\ ch.type \in {"text", "mixed"})

\* the pages without a detected heading that hold a table
TablePagesWithoutHeading ==
    {p \in AllPages(content) :
        /\ DetectSections(PageText(content, p)) = <<>>
        /\ TablesOn(content, p) # <<>>}

\* C12: on a page with no detected heading and at least one table,
\* chunk_by_sections emits one or more text-derived chunks of which exactly
\* the last has type mixed and content ending with "\n\nTable:\n" and the text
\* of the last table of the page; every earlier chunk of the page has type
\* text and no table suffix.
C12_TablesOnLastChunk ==
    (cpc = "done" /\ use_sections) =>
        \A p \in TablePagesWithoutHeading :
            LET cs == TextChunksOf(p)
                tables == TablesOn(content, p)
            IN  /\ Len(cs) >= 1
                /\ cs[Len(cs)].type = "mixed"
                /\ IsSuffix(<<"\n", "\n", "Table:", "\n">> \o tables[Len(tables)].content,
                            cs[Len(cs)].content)
                /\ \A i \in 1..(Len(cs) - 1) :
                      /\ cs[i].type = "text"
                      /\ ~Occurs("Table:", cs[i].content)

\* chunk_by_sections returned for a page without headings whose text makes
\* two chunks and which holds two tables
C12_Witness ==
    /\ cpc = "done"
    /\ use_sections
    /\ \E p \in TablePagesWithoutHeading :
          /\ Len(TextChunksOf(p)) = 2
          /\ Len(TablesOn(content, p)) = 2

\* C13: the text chunks of one logical unit (a page without headings, a
\* section body on a page, a text record) carry chunk_index 0, 1, ...,
\* total_chunks - 1 in emission order without gap or repeat, and the same
\* total_chunks, the number of chunks emitted for the unit.
C13_ContiguousIndex ==
    cpc = "done" =>
        \A k \in DOMAIN chunked.text :
            LET ch == chunked.text[k]
            IN  /\ 0 <= ch.chunk_index
                /\ ch.chunk_index < ch.total_chunks
                /\ ch.chunk_index > 0 =>
                      /\ k > 1
                      /\ chunked.text[k - 1].chunk_index = ch.chunk_index - 1
                      /\ chunked.text[k - 1].total_chunks = ch.total_chunks
                      /\ chunked.text[k - 1].page = ch.page
                      /\ chunked.text[k - 1].section_number = ch.section_number
                /\ ch.chunk_index < ch.total_chunks - 1 =>
                      /\ k < Len(chunked.text)
                      /\ chunked.text[k + 1].chunk_index = ch.chunk_index + 1
                      /\ chunked.text[k + 1].total_chunks = ch.total_chunks
                      /\ chunked.text[k + 1].page = ch.page
                      /\ chunked.text[k + 1].section_number = ch.section_number

\* chunk_all returned, with sections and without, a unit split in two chunks
C13_Witness ==
    /\ cpc = "done"
    /\ \E k \in DOMAIN chunked.text :
          /\ chunked.text[k].chunk_index = 1
          /\ chunked.text[k].total_chunks = 2
    /\ \E k \in DOMAIN chunked.text : chunked.text[k].total_chunks = 1

\* every section of the map starts no later than it ends
StartsBeforeEnd(map) ==
    \A i \in DOMAIN map : map[i].start_page <= map[i].end_page

\* from one map to the next no section is lost or moved, no start_page
\* changes and no page leaves a section
OnlyGrows(map, next) ==
    /\ Len(map) <= Len(next)
    /\ \A i \in DOMAIN map :
          /\ next[i].number = map[i].number
          /\ next[i].start_page = map[i].start_page
          /\ \A a \in DOMAIN map[i].pages :
                \E b \in DOMAIN next[i].pages : next[i].pages[b] = map[i].pages[a]

\* C14: at every step of the page scan that builds the section map (each
\* heading of each page), every section satisfies start_page <= end_page, and
\* the pages of a section only grow: no page is removed, start_page never
\* changes.
C14_SectionMapGrows ==
    cpc = "scan" =>
        /\ StartsBeforeEnd(section_map)
        /\ cursor <= Len(SortedSeq(AllPages(content))) =>
              LET page == SortedSeq(AllPages(content))[cursor]
                  found_here == DetectSections(PageText(content, page))
                  after(j) == NoteSections(section_map, SubSeq(found_here, 1, j), 1, page)
              IN  \A j \in 1..Len(found_here) :
                      /\ OnlyGrows(after(j - 1), after(j))
                      /\ StartsBeforeEnd(after(j))

\* the scan has seen the heading of a section on two pages
C14_Witness ==
    /\ cpc = "scan"
    /\ \E i \in DOMAIN section_map :
          /\ Len(section_map[i].pages) = 2
          /\ section_map[i].start_page < section_map[i].end_page

\* what chunk_all emitted, in emission order where it has one
Emitted == IF use_sections THEN section_chunks ELSE AllChunked

\* C17: each image record produces exactly one chunk of type image with the
\* content and page of the image, chunk_index 0 and total_chunks 1, whether or
\* not headings or tables are on the page; image content is never merged into
\* a text or mixed chunk.
C17_ImagesApart ==
    cpc = "done" =>
        \A i \in DOMAIN content.images :
            LET image == content.images[i]
                own == {k \in DOMAIN Emitted :
                          /\ Emitted[k].type = "image"
                          /\ Emitted[k].content = image.content
                          /\ Emitted[k].page = image.page}
            IN  /\ Cardinality(own) = 1
                /\ \A k \in own :
                      Emitted[k].chunk_index = 0 /\ Emitted[k].total_chunks = 1
                /\ \A k \in DOMAIN Emitted :
                      Emitted[k].type # "image" =>
                          ~Occurs(image.content[1], Emitted[k].content)

\* chunk_by_sections returned for an image on a page with a heading and a
\* table
C17_Witness ==
    /\ cpc = "done"
    /\ use_sections
    /\ \E i \in DOMAIN content.images :
          /\ DetectSections(PageText(content, content.images[i].page)) # <<>>
          /\ TablesOn(content, content.images[i].page) # <<>>
          /\ \E k \in DOMAIN section_chunks :
                section_chunks[k].type = "mixed"
                    /\ section_chunks[k].page = content.images[i].page

\* the pages before this one on which a heading is detected
HeadingPagesBefore(page) ==
    {q \in AllPages(content) :
        q < page /\ DetectSections(PageText(content, q)) # <<>>}

\* the number of the section open when the page begins: the last heading
\* detected on the pages before it
OpenSection(page) ==
    LET q == CHOOSE x \in HeadingPagesBefore(page) :
                 \A y \in HeadingPagesBefore(page) : y <= x
        found_there == DetectSections(PageText(content, q))
    IN  found_there[Len(found_there)].number

\* the pages with headings whose text begins before the first heading
PagesWithLeadingText ==
    {p \in AllPages(content) :
        /\ DetectSections(PageText(content, p)) # <<>>
        /\ DetectSections(PageText(content, p))[1].line_index > 0}

\* C20: on a page with detected headings, text before the first heading is
\* emitted in a chunk as a continuation of the section open from a previous
\* page when there is one, and is discarded only when no section was open.
C20_LeadingTextContinues ==
    (cpc = "done" /\ use_sections) =>
        \A p \in PagesWithLeadingText :
            IF HeadingPagesBefore(p) # {}
            THEN \E k \in DOMAIN section_chunks :
                    /\ section_chunks[k].page = p
                    /\ section_chunks[k].section_number = OpenSection(p)
                    /\ Occurs(SentencePiece, section_chunks[k].content)
            ELSE \A k \in DOMAIN section_chunks :
                    (section_chunks[k].page = p /\ section_chunks[k].type # "image") =>
                        \E i \in DOMAIN DetectSections(PageText(content, p)) :
                            DetectSections(PageText(content, p))[i].number
                                = section_chunks[k].section_number

-----------------------------------------------------------------------------
(* Further claims about VectorStore and RAGSystem.                          *)

\* the first characters of the content, MaxDocLen of them
IsCutOf(document, c) ==
    /\ StrLen(document) = MaxDocLen
    /\ \E n \in 0..Len(c) : document = SubSeq(c, 1, n)

\* C15: the document text of every stored entry has at most 10,000
\* characters: add_chunks stores a content of at most 10,000 characters
\* unchanged and the first 10,000 characters of a longer one, and no
\* operation stores longer text.
C15_StoredTextCapped ==
    /\ \A e \in disk_entries :
          /\ StrLen(e.document) <= MaxDocLen
          /\ \E c \in Contents :
                IF StrLen(c) <= MaxDocLen THEN e.document = c
                ELSE IsCutOf(e.document, c)
    /\ \A v \in Instances :
          \A i \in DOMAIN batch[v] : StrLen(batch[v][i].document) <= MaxDocLen
    /\ \A c \in Chunk :
          Prepare(<<c>>, 1)[1].document =
              IF StrLen(c.content) <= MaxDocLen THEN c.content
              ELSE SubSeq(c.content, 1, Len(c.content) - 1)

\* add_chunks returned and the index holds a cut content and a whole one
C15_Witness ==
    /\ op["A"] = "add"
    /\ result["A"].outcome = "returned"
    /\ \E e \in disk_entries \ before["A"] :
          \E c \in Contents : StrLen(c) > MaxDocLen /\ IsCutOf(e.document, c)
    /\ \E e \in disk_entries : e.document \in Contents

\* C16: a call of RAGSystem.query in which a step fails (embedding the
\* question, searching the index, the answer generator) does not raise; it
\* returns a result whose answer is an explanatory string.
C16_QueryNeverRaises ==
    \A v \in Instances :
        (op[v] = "query" /\ spc[v] = "ready") =>
            /\ result[v].outcome = "returned"
            /\ result[v].value \in Answers

-----------------------------------------------------------------------------
(* Claims about the sections and tables of Chunker.chunk_by_sections.       *)

\* the pages on which headings are detected, and those without any
PagesWithHeadings ==
    {p \in AllPages(content) : DetectSections(PageText(content, p)) # <<>>}
PagesWithoutHeadings == AllPages(content) \ PagesWithHeadings

\* the body of the j-th section of a page: the lines after its heading up to
\* the next heading or the end of the page, without surrounding whitespace
BodyOf(page, j) ==
    LET lines == SplitLines(PageText(content, page))
        found_here == DetectSections(PageText(content, page))
        last == IF j < Len(found_here) THEN found_here[j + 1].line_index
                ELSE Len(lines)
    IN  Strip(Join(SubSeq(lines, found_here[j].line_index + 2, last), <<"\n">>))

\* C21: a section whose body is empty after stripping contributes no text
\* chunks, and each table attached to it becomes a chunk of its own of type
\* table that carries the number and title of the section; this holds for
\* every section of a page, the last one included.
C21_EmptySectionTables ==
    (cpc = "done" /\ use_sections) =>
        \A p \in PagesWithHeadings :
            LET found_here == DetectSections(PageText(content, p))
            IN  \A j \in DOMAIN found_here :
                    LET num == found_here[j].number
                        attached == SectionTables(content, section_map, p, num)
                    IN  (BodyOf(p, j) = <<>> /\ attached # <<>>) =>
                          /\ \A t \in DOMAIN attached :
                                \E k \in DOMAIN section_chunks :
                                    /\ section_chunks[k].type = "table"
                                    /\ section_chunks[k].content = attached[t].content
                                    /\ section_chunks[k].section_number = num
                                    /\ section_chunks[k].section_title = found_here[j].title
                          /\ (\A i \in DOMAIN found_here :
                                 found_here[i].number = num => BodyOf(p, i) = <<>>)
                             => \A k \in DOMAIN section_chunks :
                                   ~ /\ section_chunks[k].page = p
                                     /\ section_chunks[k].type \in {"text", "mixed"}
                                     /\ section_chunks[k].section_number = num

\* C26: the content of each table record is appended to, or emitted as, at
\* most one chunk of chunk_by_sections, also when a page holds several
\* sections and when a heading number recurs on several pages.
C26_NoTableDuplication ==
    (cpc = "done" /\ use_sections) =>
        \A i \in DOMAIN content.tables :
            Cardinality(ChunksOf(content.tables[i], section_chunks)) <= 1

C30_NoEmptyTextChunk ==
    (cpc = "done" /\ use_sections) =>
        \A k \in DOMAIN section_chunks :
            section_chunks[k].type = "text" => section_chunks[k].content # <<>>

-----------------------------------------------------------------------------
(* Two VectorStore objects opened on the same db_path.                      *)

InitTwoStores == NoChunkText /\ InitStore /\ NoChunkAll /\ NoPrompt /\ NoDetect

\* the callers of the two objects add one text chunk at a time
OneTextChunk(v) ==
    /\ Len(batch'[v]) = 1
    /\ batch'[v][1].type = "text"
    /\ batch'[v][1].document = <<"text A of 10000 characters">>

NextTwoStores ==
    \/ Construct("A")
    \/ InitOpen("A")
    \/ ResetDatabase("A")
    \/ Reopen("A")
    \/ InitGet("A")
    \/ CreateCollection("A")
    \/ AddChunks("A") /\ OneTextChunk("A")
    \/ AddWrite("A")
    \/ ClearCollection("A")
    \/ ClearDelete("A")
    \/ Construct("B")
    \/ InitOpen("B")
    \/ ResetDatabase("B")
    \/ Reopen("B")
    \/ InitGet("B")
    \/ CreateCollection("B")
    \/ AddChunks("B") /\ OneTextChunk("B")
    \/ AddWrite("B")
    \/ ClearCollection("B")
    \/ ClearDelete("B")

SpecTwoStores == InitTwoStores /\ [][NextTwoStores]_vars

\* the other of the two objects
Other(v) == CHOOSE w \in Instances : w # v

\* object v runs _reset_database in this step and the directory is removed
AnyResetStep(v) ==
    /\ spc[v] \in {"init_reset", "init_reset2", "add_reset", "clear_reset"}
    /\ spc'[v] \in {"init_reopen", "init_reopen2", "add_reopen", "clear_reopen"}

\* the add_chunks call of object v has returned and no later call of v began
AddCompleted(v) == op[v] = "add" /\ result[v].outcome = "returned"

\* C25: with two VectorStore objects on one db_path, a corruption reset of
\* one object (in __init__, add_chunks or the clear_collection fallback) is
\* not guarded against the other: it removes every entry, those of a
\* completed add of the other object included.
C25_ResetDeletesOthersEntries ==
    [][\A v \in Instances :
          (AnyResetStep(v) /\ AddCompleted(Other(v))
              /\ Range(batch[Other(v)]) \subseteq disk_entries)
          => (disk_entries' = {} /\ ~disk_coll')
      ]_vars

\* B's add has returned, and after a reset by A its entries are gone
C25_Witness ==
    /\ AddCompleted("B")
    /\ Range(batch["B"]) # {}
    /\ Range(batch["B"]) \cap disk_entries = {}
    /\ recovered["A"] # {}
    /\ spc["A"] \in {"init_reopen", "init_reopen2", "add_reopen", "clear_reopen"}

-----------------------------------------------------------------------------
(* Claims about the recovery of VectorStore and the writes of               *)
(* RAGSystem.process_document.                                              *)

\* object v is about to run _reset_database for a failed open, collection
\* open or write, and the step removes the directory
ResetStep(v) ==
    /\ spc[v] \in {"init_reset", "init_reset2", "add_reset"}
    /\ spc'[v] \in {"init_reopen", "init_reopen2", "add_reopen"}

\* the call of object v ends with an exception in this step
RaiseStep(v) == result[v].outcome = "none" /\ result'[v].outcome = "raised"

\* C23: when opening the store, opening the collection or writing a batch
\* fails with a corruption error, the index is deleted and rebuilt empty and
\* the operation is attempted once more; a failure of the second attempt
\* propagates without further reset or retry, and a failure that is no
\* corruption error during store open or batch write propagates without
\* deleting the index.
C23_RetryOnce ==
    [][\A v \in Instances :
          \* one reset per failing operation, and it deletes the index
          /\ ResetStep(v) =>
                /\ ResetPlace(spc[v]) \notin recovered[v]
                /\ ~disk_exists' /\ ~disk_coll' /\ disk_entries' = {}
          \* the second attempt follows the rebuild and is the last
          /\ (spc'[v] = "add_retry" /\ spc[v] # "add_retry") =>
                /\ "write" \in recovered[v]
                /\ disk_exists /\ disk_coll' /\ disk_entries' = {}
          /\ spc[v] \in {"init_reopen", "init_reopen2", "add_reopen", "add_retry"} =>
                \/ RaiseStep(v) /\ disk_entries' = disk_entries
                \/ spc'[v] \notin {"init_reset", "init_reset2", "add_reset",
                                  "init_open", "add_write"}
          \* a failure of the open or of the write that propagates at once
          \* leaves the index alone
          /\ (spc[v] \in {"init_open", "add_write"} /\ RaiseStep(v)) =>
                /\ recovered'[v] = recovered[v]
                /\ <<disk_exists', disk_coll', disk_entries'>>
                      = <<disk_exists, disk_coll, disk_entries>>
          \* a call that ends counts each kind of recovery once and is over
          /\ RaiseStep(v) => spc'[v] \in {"ready", "dead"}
      ]_vars

\* add_chunks returned after the reset and the one retry of its write
C23_Witness ==
    /\ op["A"] = "add"
    /\ result["A"].outcome = "returned"
    /\ recovered["A"] = {"write"}

\* C27: after add_chunks met a corruption error on write and its retry
\* succeeded, the collection holds exactly the entries of the batch, as many
\* as the batch has chunks, and none of the entries stored before the call.
C27_RetryLeavesBatchOnly ==
    \A v \in Instances :
        (op[v] = "add" /\ result[v].outcome = "returned" /\ "write" \in recovered[v])
        => (/\ disk_entries = Range(batch[v])
            /\ Cardinality(disk_entries) = Len(batch[v])
            /\ disk_entries \cap before[v] = {})

\* a batch of two chunks replaced an index with data
C27_Witness ==
    /\ op["A"] = "add"
    /\ result["A"].outcome = "returned"
    /\ "write" \in recovered["A"]
    /\ before["A"] # {}
    /\ Len(batch["A"]) = 2

-----------------------------------------------------------------------------
(* Claims about the context of PerplexityClient.query.                      *)

\* the parts of the context built from results of the given types
PartsOfType(types) ==
    {i \in DOMAIN context_parts : context_parts[i].type \in types}

\* C22 as stated: the snippet of a result is at most TableBudget characters
\* for a table, TextBudget for a text and OtherBudget for any other type,
\* whatever the length of the content.
C22_SnippetWithinBudget ==
    \A i \in DOMAIN context_parts :
        StrLen(context_parts[i].snippet) <=
            (CASE context_parts[i].type = "table" -> TableBudget
               [] context_parts[i].type = "text" -> TextBudget
               [] OTHER -> OtherBudget)

\* C22 amended: the snippet holds at most TableBudget, TextBudget or
\* OtherBudget characters of the content, which are its first ones; a table
\* that was cut is followed by the marker of 26 characters, so its snippet
\* has TableBudget + 26 characters; nothing follows a cut text or other
\* result.
C22_ContentWithinBudget ==
    \A i \in DOMAIN context_parts :
        LET c == context[i].content
            t == context_parts[i].type
            snip == context_parts[i].snippet
            budget == CASE t = "table" -> TableBudget
                        [] t = "text" -> TextBudget
                        [] OTHER -> OtherBudget
        IN  /\ t = context[i].type
            /\ StrLen(c) <= budget => snip = c
            /\ StrLen(c) > budget =>
                  /\ IsPrefix(TakeChars(c, budget), c)
                  /\ StrLen(TakeChars(c, budget)) = budget
                  /\ snip = TakeChars(c, budget)
                              \o (IF t = "table" THEN ContinuesMarker ELSE <<>>)
                  /\ StrLen(snip) = budget + (IF t = "table" THEN 26 ELSE 0)

\* a table of more than TableBudget characters, a text of more than
\* TextBudget and another result of more than OtherBudget have been formatted
C22_Witness ==
    /\ \E i \in PartsOfType({"table"}) : StrLen(context[i].content) > TableBudget
    /\ \E i \in DOMAIN context_parts :
          /\ context_parts[i].type # "table"
          /\ StrLen(context[i].content) >
                (IF context_parts[i].type = "text" THEN TextBudget ELSE OtherBudget)

-----------------------------------------------------------------------------
(* Claims about Chunker.detect_sections.                                    *)

\* the stripped line is an integer, whitespace, and a text that starts with
\* a lowercase letter
IntegerThenLowercase(line) ==
    LET a == SkipDigits(line, 1)
        p == SkipWs(line, a)
    IN  a > 1 /\ p > a /\ p <= Len(line) /\ line[p] \in Lowercase

\* C24: a line "<integer> <title>" is reported as a heading only when the
\* title starts with an uppercase letter: no line whose text after the
\* integer starts with a lowercase letter (such a line matches neither the
\* dotted-number nor the "Section" pattern) is among the detected sections.
C24_LowercaseNotHeading ==
    dpc = "done" =>
        \A i \in DOMAIN SplitLines(dtext) :
            IntegerThenLowercase(Strip(SplitLines(dtext)[i]))
            => ~\E k \in DOMAIN detected : detected[k].line_index = i - 1

====
